---------------------------- MODULE Spec2Model ----------------------------
(***************************************************************************)
(* Dragon Metrics Traffic Analyzer (streamlit_app.py).                     *)
(*                                                                         *)
(* The model follows one submission of the parameter form: the uploaded    *)
(* table df is classified by process_traffic_data, the four traffic sums   *)
(* of the main script are taken, and analyze_subfolders builds the         *)
(* full-path and the progressive aggregate.                                *)
(*                                                                         *)
(* Text is a sequence of one-character strings.  A cell of a table is a    *)
(* tagged record, so that a NaN, a number, a boolean and a text can live   *)
(* in one column, as in a pandas object column.                            *)
(***************************************************************************)
EXTENDS Integers, Sequences, FiniteSets, TLC

VARIABLES
    uploaded,             \* the sheet as pd.read_excel returned it (never written)
    df,                   \* the caller's DataFrame handed to process_traffic_data
    url_column, traffic_column, keyword_column,   \* designated columns
    url_match, search_keywords,                   \* the two text inputs
    pc,                   \* position in the "if submitted:" block
    outcome,              \* how process_traffic_data ended
    reported,             \* column names listed by st.error (missing columns)
    filtered_df,          \* the returned FilteredTable (None: no table)
    sums,                 \* url_only, keyword_only, both_matches, total
    subfolder_analysis,   \* full-path aggregate
    progressive_analysis  \* progressive aggregate

vars == <<uploaded, df, url_column, traffic_column, keyword_column, url_match,
          search_keywords, pc, outcome, reported, filtered_df, sums,
          subfolder_analysis, progressive_analysis>>

-----------------------------------------------------------------------------
(* Characters and Python str methods *)

\* The characters of the model in code point order.
AsciiOrder ==
    <<" ", "#", "*", ",", ".", "/", ":", "?",
      "A", "B", "C", "D", "E", "F", "G", "H", "I", "J", "K", "L", "M",
      "N", "O", "P", "Q", "R", "S", "T", "U", "V", "W", "X", "Y", "Z",
      "\\",
      "a", "b", "c", "d", "e", "f", "g", "h", "i", "j", "k", "l", "m",
      "n", "o", "p", "q", "r", "s", "t", "u", "v", "w", "x", "y", "z",
      "|">>

Ord(c) == CHOOSE i \in 1..Len(AsciiOrder) : AsciiOrder[i] = c

IsUpper(c) == Ord(c) >= Ord("A") /\ Ord(c) <= Ord("Z")

IsAlpha(c) == IsUpper(c) \/ (Ord(c) >= Ord("a") /\ Ord(c) <= Ord("z"))

\* re.IGNORECASE folds case before comparing two characters.
Lower(c) == IF IsUpper(c) THEN AsciiOrder[Ord(c) + (Ord("a") - Ord("A"))] ELSE c

RECURSIVE LStrip(_, _)
LStrip(s, drop) ==
    IF s # <<>> /\ Head(s) \in drop THEN LStrip(Tail(s), drop) ELSE s

RECURSIVE RStrip(_, _)
RStrip(s, drop) ==
    IF s # <<>> /\ s[Len(s)] \in drop THEN RStrip(SubSeq(s, 1, Len(s) - 1), drop)
    ELSE s

\* str.strip(): leading and trailing whitespace removed.
Strip(s) == RStrip(LStrip(s, {" "}), {" "})

\* str.strip('/')
StripSlash(s) == RStrip(LStrip(s, {"/"}), {"/"})

\* Position of the first occurrence of a character of cs in s, 0 when none.
Find(s, cs) ==
    IF \E i \in 1..Len(s) : s[i] \in cs
    THEN CHOOSE i \in 1..Len(s) : s[i] \in cs /\ \A j \in 1..(i - 1) : s[j] \notin cs
    ELSE 0

\* str.split(sep): always at least one part.
RECURSIVE Split(_, _)
Split(s, sep) ==
    LET i == Find(s, {sep})
    IN IF i = 0 THEN <<s>>
       ELSE <<SubSeq(s, 1, i - 1)>> \o Split(SubSeq(s, i + 1, Len(s)), sep)

\* sep.join(parts)
RECURSIVE Join(_, _)
Join(parts, sep) ==
    IF parts = <<>> THEN <<>>
    ELSE IF Len(parts) = 1 THEN parts[1]
    ELSE parts[1] \o sep \o Join(Tail(parts), sep)

\* A Python truth test on a str.
Truthy(s) == s # <<>>

RECURSIVE SelectNonEmptyStripped(_)
SelectNonEmptyStripped(parts) ==
    IF parts = <<>> THEN <<>>
    ELSE (IF Truthy(Strip(Head(parts))) THEN <<Strip(Head(parts))>> ELSE <<>>)
         \o SelectNonEmptyStripped(Tail(parts))

RECURSIVE SelectNonEmpty(_)
SelectNonEmpty(parts) ==
    IF parts = <<>> THEN <<>>
    ELSE (IF Truthy(Head(parts)) THEN <<Strip(Head(parts))>> ELSE <<>>)
         \o SelectNonEmpty(Tail(parts))

KeywordsListUntrimmedTest(text) == SelectNonEmpty(Split(text, ","))

\* [kw.strip() for kw in search_keywords.split(',') if kw.strip()]
KeywordsList(text) == SelectNonEmptyStripped(Split(text, ","))

-----------------------------------------------------------------------------
(* re.escape and the regular expression search behind Series.str.contains *)

\* The characters re.escape puts a backslash before (of those in AsciiOrder).
SpecialChars == {" ", "#", "*", ".", "?", "\\", "|"}

EscapeUnescaped(s) == s

RECURSIVE Escape(_)
Escape(s) ==
    IF s = <<>> THEN <<>>
    ELSE (IF Head(s) \in SpecialChars THEN <<"\\", Head(s)>> ELSE <<Head(s)>>)
         \o Escape(Tail(s))

RECURSIVE EscapeAll(_)
EscapeAll(list) ==
    IF list = <<>> THEN <<>> ELSE <<Escape(Head(list))>> \o EscapeAll(Tail(list))

\* The alternatives of a pattern: split at each '|' that no backslash quotes.
RECURSIVE Alternatives(_, _)
Alternatives(p, cur) ==
    IF p = <<>> THEN <<cur>>
    ELSE IF Head(p) = "\\" /\ Len(p) >= 2
         THEN Alternatives(SubSeq(p, 3, Len(p)), cur \o SubSeq(p, 1, 2))
    ELSE IF Head(p) = "|" THEN <<cur>> \o Alternatives(Tail(p), <<>>)
    ELSE Alternatives(Tail(p), Append(cur, Head(p)))

\* One atom of a pattern: a quoted character, '.', or a plain character.
AtomLen(p) == IF Head(p) = "\\" /\ Len(p) >= 2 THEN 2 ELSE 1

AtomMatches(p, c) ==
    IF Head(p) = "\\" /\ Len(p) >= 2 THEN Lower(p[2]) = Lower(c)
    ELSE IF Head(p) = "." THEN TRUE
    ELSE Lower(Head(p)) = Lower(c)

\* Does pattern p (one alternative) match a prefix of t?  An atom may be
\* followed by '*'; '?' after an atom makes it optional.
RECURSIVE MatchHere(_, _)
MatchHere(p, t) ==
    IF p = <<>> THEN TRUE
    ELSE LET n    == AtomLen(p)
             rest == SubSeq(p, n + 1, Len(p))
         IN IF rest # <<>> /\ Head(rest) = "*"
            THEN \E k \in 0..Len(t) :
                    /\ \A j \in 1..k : AtomMatches(p, t[j])
                    /\ MatchHere(Tail(rest), SubSeq(t, k + 1, Len(t)))
            ELSE IF rest # <<>> /\ Head(rest) = "?"
            THEN \/ MatchHere(Tail(rest), t)
                 \/ (t # <<>> /\ AtomMatches(p, Head(t)) /\ MatchHere(Tail(rest), Tail(t)))
            ELSE t # <<>> /\ AtomMatches(p, Head(t)) /\ MatchHere(rest, Tail(t))

\* re.search(pattern, text, re.IGNORECASE) is not None
RegexSearch(p, t) ==
    LET alts == Alternatives(p, <<>>)
    IN \E a \in 1..Len(alts) :
          \E i \in 1..(Len(t) + 1) : MatchHere(alts[a], SubSeq(t, i, Len(t)))

-----------------------------------------------------------------------------
(* Cells and tables (pandas DataFrame) *)

Range(f) == {f[i] : i \in DOMAIN f}

Str(s)  == [t |-> "str",  v |-> s]       \* a Python str read from the sheet
Num(n)  == [t |-> "num",  v |-> n]       \* a number
Bool(b) == [t |-> "bool", v |-> b]       \* a boolean of a match column
Cat(c)  == [t |-> "cat",  v |-> c]       \* a Category label
NaN     == [t |-> "nan",  v |-> <<>>]    \* an empty cell

CellEq(a, b) == a.t = b.t /\ a.v = b.v

\* Two tables with the same columns in the same order, the same row labels
\* and the same cell values.
TableEq(a, b) ==
    /\ a.columns = b.columns
    /\ Len(a.rows) = Len(b.rows)
    /\ \A i \in 1..Len(a.rows) :
          /\ a.rows[i].label = b.rows[i].label
          /\ \A c \in Range(a.columns) : CellEq(a.rows[i].cells[c], b.rows[i].cells[c])

\* What a function returning None leaves in filtered_df.
None == [columns |-> <<>>, rows |-> <<>>]

\* df[name] = values: a column of that name is overwritten in place, a new
\* one is appended as the last column.
SetColumn(table, name, values) ==
    [columns |-> IF name \in Range(table.columns) THEN table.columns
                 ELSE Append(table.columns, name),
     rows    |-> [i \in 1..Len(table.rows) |->
                    [label |-> table.rows[i].label,
                     cells |-> [c \in Range(table.columns) \cup {name} |->
                                  IF c = name THEN values[i]
                                  ELSE table.rows[i].cells[c]]]]]

\* The .str accessor exists on an object column only: a column without a
\* single str (all cells empty, numbers or booleans) has a numeric dtype and
\* Series.str raises AttributeError.  A column of a sheet without rows is an
\* object column.
HasStrAccessor(table, col) ==
    \/ table.rows = <<>>
    \/ \E i \in 1..Len(table.rows) : table.rows[i].cells[col].t \in {"str", "cat"}

\* Series.str.contains(pattern, case=False, na=False) on one cell.
StrContains(cell, pattern) ==
    IF cell.t = "str" THEN RegexSearch(pattern, cell.v) ELSE FALSE

IndexOf(s, x) == CHOOSE i \in 1..Len(s) : s[i] = x /\ \A j \in 1..(i - 1) : s[j] # x

\* list.remove(x) for an x that is in the list: the first occurrence goes.
Remove(s, x) ==
    LET i == IndexOf(s, x) IN SubSeq(s, 1, i - 1) \o SubSeq(s, i + 1, Len(s))

-----------------------------------------------------------------------------
(* process_traffic_data *)

DerivedColumns == <<"URL Match", "Translation Match", "Category">>

MissingColumnsFirstOnly(table, required) ==
    LET all == SelectSeq(required, LAMBDA col : col \notin Range(table.columns))
    IN IF all = <<>> THEN <<>> ELSE <<all[1]>>

\* [col for col in required_columns if col not in df.columns]
MissingColumns(table, required) ==
    SelectSeq(required, LAMBDA col : col \notin Range(table.columns))

CategoryFirstRuleWins(u, k) ==
    IF u THEN "URL matches only"
    ELSE IF k THEN "Translation matches only"
    ELSE "No Match"

\* Lines 59-62: the default, then the three .loc assignments in order.
Category(u, k) ==
    LET c0 == "No Match"
        c1 == IF u /\ ~k THEN "URL matches only" ELSE c0
        c2 == IF ~u /\ k THEN "Translation matches only" ELSE c1
        c3 == IF u /\ k THEN "Both matches" ELSE c2
    IN c3

\* df[df["Category"] != "No Match"].copy(): the rows keep their labels.
FilterRows(table) ==
    [columns |-> table.columns,
     rows    |-> SelectSeq(table.rows, LAMBDA r : r.cells["Category"].v # "No Match")]

RECURSIVE RemoveAll(_, _)
RemoveAll(cols, names) ==
    IF names = <<>> THEN cols
    ELSE RemoveAll(IF Head(names) \in Range(cols) THEN Remove(cols, Head(names))
                   ELSE cols,
                   Tail(names))

\* Lines 68-74: idx is taken before the three names are removed.
NewOrder(cols, kwcol) ==
    IF kwcol \in Range(cols)
    THEN LET idx     == IndexOf(cols, kwcol) - 1
             removed == RemoveAll(cols, DerivedColumns)
         IN SubSeq(removed, 1, idx) \o DerivedColumns
            \o SubSeq(removed, idx + 1, Len(removed))
    ELSE cols

\* filtered_df[new_order]
Reorder(table, order) == [columns |-> order, rows |-> table.rows]

ProcessTrafficData(table, urlcol, trafficcol, kwcol, urlq, kwtext) ==
    LET search_keywords_list == KeywordsList(kwtext)
        missing_columns == MissingColumns(table, <<urlcol, trafficcol, kwcol>>)
        url_given == Truthy(Strip(urlq))
        kw_given  == search_keywords_list # <<>>
        url_pattern     == Escape(Strip(urlq))
        keyword_pattern == Join(EscapeAll(search_keywords_list), <<"|">>)
        df1 == IF url_given
               THEN SetColumn(table, "URL Match",
                              [i \in 1..Len(table.rows) |->
                                 Bool(StrContains(table.rows[i].cells[urlcol], url_pattern))])
               ELSE SetColumn(table, "URL Match", [i \in 1..Len(table.rows) |-> Bool(FALSE)])
        df2 == IF kw_given
               THEN SetColumn(df1, "Translation Match",
                              [i \in 1..Len(df1.rows) |->
                                 Bool(StrContains(df1.rows[i].cells[kwcol], keyword_pattern))])
               ELSE SetColumn(df1, "Translation Match",
                              [i \in 1..Len(df1.rows) |-> Bool(FALSE)])
        df3 == SetColumn(df2, "Category",
                         [i \in 1..Len(df2.rows) |->
                            Cat(Category(df2.rows[i].cells["URL Match"].v,
                                         df2.rows[i].cells["Translation Match"].v))])
        kept == FilterRows(df3)
    IN IF missing_columns # <<>>
       THEN [df |-> table, outcome |-> "missing_columns",
             reported |-> missing_columns, result |-> None]
       ELSE IF url_given /\ ~HasStrAccessor(table, urlcol)
       THEN [df |-> table, outcome |-> "exception", reported |-> <<>>, result |-> None]
       ELSE IF kw_given /\ ~HasStrAccessor(df1, kwcol)
       THEN [df |-> df1, outcome |-> "exception", reported |-> <<>>, result |-> None]
       ELSE IF ~url_given /\ ~kw_given
       THEN [df |-> df2, outcome |-> "empty_criteria", reported |-> <<>>, result |-> None]
       ELSE [df |-> df3, outcome |-> "ok", reported |-> <<>>,
             result |-> Reorder(kept, NewOrder(kept.columns, kwcol))]

-----------------------------------------------------------------------------
(* Main script, lines 201-204: the four traffic sums *)

\* Series.sum() skips empty cells.
RECURSIVE SumTraffic(_, _)
SumTraffic(rows, col) ==
    IF rows = <<>> THEN 0
    ELSE (IF Head(rows).cells[col].t = "num" THEN Head(rows).cells[col].v ELSE 0)
         + SumTraffic(Tail(rows), col)

CategoryTraffic(table, trafficcol, label) ==
    SumTraffic(SelectSeq(table.rows, LAMBDA r : r.cells["Category"].v = label), trafficcol)

TrafficSums(table, trafficcol) ==
    LET u == CategoryTraffic(table, trafficcol, "URL matches only")
        k == CategoryTraffic(table, trafficcol, "Translation matches only")
        b == CategoryTraffic(table, trafficcol, "Both matches")
    IN [url_only |-> u, keyword_only |-> k, both_matches |-> b,
        total_relevant_traffic |-> u + k + b]

NoSums == [url_only |-> 0, keyword_only |-> 0, both_matches |-> 0,
           total_relevant_traffic |-> 0]

-----------------------------------------------------------------------------
(* analyze_subfolders *)

\* Everything of s before the first character of cs.
Before(s, cs) == LET i == Find(s, cs) IN IF i = 0 THEN s ELSE SubSeq(s, 1, i - 1)

\* urllib.parse.urlsplit(url).path: the scheme, the network location, the
\* fragment and the query are cut off, in this order.
UrlPath(url) ==
    LET i  == Find(url, {":"})
        hasScheme == /\ i > 1
                     /\ IsAlpha(url[1])
                     /\ \A j \in 1..(i - 1) : IsAlpha(url[j]) \/ url[j] = "."
        r1 == IF hasScheme THEN SubSeq(url, i + 1, Len(url)) ELSE url
        r2 == IF Len(r1) >= 2 /\ r1[1] = "/" /\ r1[2] = "/"
              THEN LET rest == SubSeq(r1, 3, Len(r1))
                       d    == Find(rest, {"/", "?", "#"})
                   IN IF d = 0 THEN <<>> ELSE SubSeq(rest, d, Len(rest))
              ELSE r1
    IN Before(Before(r2, {"#"}), {"?"})

\* The 'path' column of adv.url_to_df(df[url_column].fillna('')): one entry
\* per position, an empty path replaced by NaN.
ParsedPath(cell) ==
    LET url  == IF cell.t = "str" THEN cell.v ELSE <<>>
        path == UrlPath(url)
    IN IF path = <<>> THEN NaN ELSE Str(path)

\* pd.concat([analysis_df, url_df], axis=1): the rows are joined on their index
\* labels.  analysis_df carries the labels of the uploaded sheet, url_df the
\* fresh labels 0..n-1; a label only one side has gets NaN on the other side.
Merged(table, urlcol, trafficcol) ==
    LET n      == Len(table.rows)
        labels == {table.rows[i].label : i \in 1..n}
        PathAt(l) == IF l < n THEN ParsedPath(table.rows[l + 1].cells[urlcol]) ELSE NaN
        left   == [i \in 1..n |->
                     [traffic |-> table.rows[i].cells[trafficcol],
                      path    |-> PathAt(table.rows[i].label)]]
        extra  == SelectSeq([i \in 1..n |-> i - 1], LAMBDA l : l \notin labels)
        right  == [j \in 1..Len(extra) |-> [traffic |-> NaN, path |-> PathAt(extra[j])]]
    IN left \o right

\* create_progressive_paths, lines 133-137
CreateProgressivePaths(path) ==
    IF path.t = "nan" \/ path.v = <<>> THEN <<>>
    ELSE LET components == Split(StripSlash(path.v), "/")
         IN [i \in 1..Len(components) |->
                <<"/">> \o Join(SubSeq(components, 1, i), <<"/">>) \o <<"/">>]

\* The rows grouped by 'path': those with a NaN key are left out.
KeyedByPath(merged) ==
    LET kept == SelectSeq(merged, LAMBDA r : r.path.t = "str")
    IN [i \in 1..Len(kept) |-> [traffic |-> kept[i].traffic, key |-> kept[i].path.v]]

\* DataFrame.explode('progressive_paths'): one row per list entry; a row with
\* an empty list gets a NaN key and is left out by the grouping.
RECURSIVE Explode(_)
Explode(merged) ==
    IF merged = <<>> THEN <<>>
    ELSE LET r  == Head(merged)
             ps == CreateProgressivePaths(r.path)
         IN [i \in 1..Len(ps) |-> [traffic |-> r.traffic, key |-> ps[i]]]
            \o Explode(Tail(merged))

\* Python's order on str: by code point, a proper prefix first.
RECURSIVE LexLess(_, _)
LexLess(a, b) ==
    IF a = <<>> THEN b # <<>>
    ELSE IF b = <<>> THEN FALSE
    ELSE IF Head(a) = Head(b) THEN LexLess(Tail(a), Tail(b))
    ELSE Ord(Head(a)) < Ord(Head(b))

RECURSIVE SortedKeys(_)
SortedKeys(keys) ==
    IF keys = {} THEN <<>>
    ELSE LET least == CHOOSE k \in keys : \A o \in keys : o = k \/ LexLess(k, o)
         IN <<least>> \o SortedKeys(keys \ {least})

RECURSIVE SumOf(_)
SumOf(keyed) ==
    IF keyed = <<>> THEN 0
    ELSE (IF Head(keyed).traffic.t = "num" THEN Head(keyed).traffic.v ELSE 0)
         + SumOf(Tail(keyed))

\* 'count' counts the cells that are not NaN.
CountOf(keyed) == Len(SelectSeq(keyed, LAMBDA r : r.traffic.t = "num"))

\* groupby(key).agg({traffic_column: ['sum', 'count']}).reset_index(): one
\* entry per key, the keys in ascending order.
GroupBy(keyed) ==
    LET keys == SortedKeys({keyed[i].key : i \in 1..Len(keyed)})
    IN [g \in 1..Len(keys) |->
          LET members == SelectSeq(keyed, LAMBDA r : r.key = keys[g])
          IN [Subfolder     |-> keys[g],
              TotalTraffic  |-> SumOf(members),
              NumberOfURLs  |-> CountOf(members)]]

\* progressive_analysis['Total Traffic'].sum()
RECURSIVE TotalTrafficOf(_)
TotalTrafficOf(agg) ==
    IF agg = <<>> THEN 0 ELSE Head(agg).TotalTraffic + TotalTrafficOf(Tail(agg))

\* progressive_analysis['Number of URLs'].sum()
RECURSIVE NumberOfURLsOf(_)
NumberOfURLsOf(agg) ==
    IF agg = <<>> THEN 0 ELSE Head(agg).NumberOfURLs + NumberOfURLsOf(Tail(agg))

\* num/den rounded to the nearest integer, a tie to the even one (numpy).
RoundHalfEven(num, den) ==
    LET q == num \div den
        r == num % den
    IN IF 2 * r < den THEN q
       ELSE IF 2 * r > den THEN q + 1
       ELSE IF q % 2 = 0 THEN q ELSE q + 1

Digits == <<"0", "1", "2", "3", "4", "5", "6", "7", "8", "9">>

RECURSIVE IntText(_)
IntText(n) ==
    IF n < 10 THEN Digits[n + 1] ELSE IntText(n \div 10) \o Digits[(n % 10) + 1]

\* str() of a float that has at most two decimals, given in hundredths:
\* 5000 is "50.0", 1250 is "12.5", 3333 is "33.33".
FloatText(h) ==
    LET whole == h \div 100
        frac  == h % 100
    IN IntText(whole) \o "." \o
       (IF frac % 10 = 0 THEN Digits[(frac \div 10) + 1]
        ELSE Digits[(frac \div 10) + 1] \o Digits[(frac % 10) + 1])

PercentOfFirstBucket(part, total) == "100.0%"

\* Lines 158-163: (part / total * 100).round(2), then f"{x}%".  A zero
\* total makes the quotient nan (0/0) or inf.
Percent(part, total) ==
    IF total = 0 THEN (IF part = 0 THEN "nan%" ELSE "inf%")
    ELSE FloatText(RoundHalfEven(10000 * part, total)) \o "%"

WithSplits(agg) ==
    LET total_traffic == TotalTrafficOf(agg)
        total_urls    == NumberOfURLsOf(agg)
    IN [g \in 1..Len(agg) |->
          [Subfolder    |-> agg[g].Subfolder,
           TotalTraffic |-> agg[g].TotalTraffic,
           NumberOfURLs |-> agg[g].NumberOfURLs,
           TrafficSplit |-> Percent(agg[g].TotalTraffic, total_traffic),
           URLSplit     |-> Percent(agg[g].NumberOfURLs, total_urls)]]

SortValuesKeyOrder(agg) == {agg}

\* The arrangements of the entries agg[i], i in I, with no entry before one of
\* larger Total Traffic.
RECURSIVE Orderings(_, _)
Orderings(agg, I) ==
    IF I = {} THEN {<<>>}
    ELSE UNION {{<<agg[i]>> \o o : o \in Orderings(agg, I \ {i})} :
                  i \in {i \in I : \A j \in I : agg[i].TotalTraffic >= agg[j].TotalTraffic}}

\* sort_values('Total Traffic', ascending=False) with the default
\* kind='quicksort', which is not a stable sort: entries of equal Total
\* Traffic may come out in any order.
SortValues(agg) == Orderings(agg, DOMAIN agg)

\* The full-path aggregate before it is sorted by traffic.
SubfolderGroups(table, urlcol, trafficcol) ==
    GroupBy(KeyedByPath(Merged(table, urlcol, trafficcol)))

\* The progressive aggregate before it is sorted by traffic.
ProgressiveGroups(table, urlcol, trafficcol) ==
    WithSplits(GroupBy(Explode(Merged(table, urlcol, trafficcol))))

-----------------------------------------------------------------------------
(* Inputs *)

MaxRows == 2        \* rows of an uploaded sheet
MaxQueryLen == 2    \* characters of a generated text input

CompressorsSmallUrl == <<"/", "c", "o", "m", "p", "r", "e", "s", "s", "o", "r", "s", "/", "s", "m", "a", "l", "l">>

OtherUrl == <<"/", "o", "t", "h", "e", "r">>

QueryUrl == <<"h", "t", "t", "p", "s", ":", "/", "/", "x", ".", "c", "n", "/", "c", "o", "m", "p", "r", "e", "s", "s", "o", "r", "s", "?", "q">>

DeepUrl == <<"/", "b", "/", "a">>

ShallowUrl == <<"/", "a">>

RootUrl == <<"h", "t", "t", "p", "s", ":", "/", "/", "x", ".", "c", "n", "/">>

BigUrl == <<"/", "c", "o", "m", "p", "r", "e", "s", "s", "o", "r", "s", "/", "b", "i", "g">>

CompressorKw == <<"c", "o", "m", "p", "r", "e", "s", "s", "o", "r">>

FanKw == <<"f", "a", "n">>

AirCompressorKw == <<"A", "i", "r", " ", "C", "o", "m", "p", "r", "e", "s", "s", "o", "r">>

UpperCompressorKw == <<"C", "O", "M", "P", "R", "E", "S", "S", "O", "R">>

CompressorsQuery == <<"/", "c", "o", "m", "p", "r", "e", "s", "s", "o", "r", "s">>

UpperQuery == <<"C", "O", "M", "P", "R", "E", "S", "S", "O", "R", "S">>

StarUrl == <<"/", "A", "*">>

DotUrl == <<"/", "x", "a", ".">>

BarKw == <<"B", "|", "c">>

PlainKw == <<"x", "b">>

BrandText == <<"b", "r", "a", "n", "d">>

YesText == <<"y", "e", "s">>

\* The rows the sheets are made of: URL, traffic and translation of a row.
Body(url, traffic, kw) == [url |-> url, traffic |-> traffic, kw |-> kw]

ScenarioRows ==
    <<Body(Str(CompressorsSmallUrl), Num(10), Str(CompressorKw)),
      Body(Str(OtherUrl), Num(5), Str(FanKw))>>

RowPool ==
    Range(ScenarioRows) \cup
    {Body(Str(QueryUrl), Num(5), Str(FanKw)),
     Body(Str(DeepUrl), Num(5), Str(AirCompressorKw)),
     Body(Str(ShallowUrl), Num(5), Str(UpperCompressorKw)),
     Body(Str(RootUrl), Num(7), Str(CompressorKw)),
     Body(NaN, Num(3), Str(CompressorKw)),
     Body(Str(BigUrl), Num(2), NaN)}

MatchRows ==
    <<Body(Str(StarUrl), Num(1), Str(BarKw)),
      Body(Str(DotUrl), Num(2), Str(PlainKw)),
      Body(NaN, Num(4), NaN)>>

SeqsUpTo(S, n) == UNION {[1..k -> S] : k \in 0..n}

DefaultColumns == <<"Ranking URL", "Traffic Index", "Translation">>

\* Column layouts of an export: the three default columns in several orders,
\* with further columns, with columns named like the derived ones, and with
\* columns absent.
Schemas ==
    {DefaultColumns,
     <<"Keyword", "Ranking URL", "Traffic Index", "Translation", "Position">>,
     <<"Translation", "Ranking URL", "Traffic Index">>,
     <<"Category", "Ranking URL", "Traffic Index", "Translation">>,
     <<"Ranking URL", "URL Match", "Translation", "Traffic Index">>,
     <<"Ranking URL", "Traffic Index", "Translation", "Category">>,
     <<"Ranking URL", "Translation">>,
     <<"Traffic Index">>,
     <<"Keyword", "Position">>}

UrlColumns     == {"Ranking URL", "Landing Page"}
TrafficColumns == {"Traffic Index"}
KeywordColumns == {"Translation", "Keyword"}

CellFor(col, body) ==
    CASE col = "Ranking URL"   -> body.url
      [] col = "Traffic Index" -> body.traffic
      [] col = "Translation"   -> body.kw
      [] col = "Keyword"       -> Str(CompressorKw)
      [] col = "Position"      -> Num(1)
      [] col = "Category"      -> Str(BrandText)
      [] OTHER                 -> Str(YesText)

\* pd.read_excel: the rows are labelled 0, 1, 2, ... (a RangeIndex).
MakeTable(columns, bodies) ==
    [columns |-> columns,
     rows    |-> [i \in 1..Len(bodies) |->
                    [label |-> i - 1,
                     cells |-> [c \in Range(columns) |-> CellFor(c, bodies[i])]]]]

UrlAlphabet == {" ", "a", ".", "*"}
KwAlphabet  == {" ", ",", "b", "|"}

-----------------------------------------------------------------------------
(* The submitted form *)

Idle ==
    /\ df = uploaded
    /\ pc = "submitted"
    /\ outcome = "none"
    /\ reported = <<>>
    /\ filtered_df = None
    /\ sums = NoSums
    /\ subfolder_analysis = <<>>
    /\ progressive_analysis = <<>>

\* Sheets of up to MaxRows rows with the default columns.
InitPipeline ==
    /\ uploaded \in {MakeTable(DefaultColumns, b) : b \in SeqsUpTo(RowPool, MaxRows)}
    /\ url_column = "Ranking URL"
    /\ traffic_column = "Traffic Index"
    /\ keyword_column = "Translation"
    /\ url_match \in {CompressorsQuery, UpperQuery, <<>>}
    /\ search_keywords \in {CompressorKw, <<>>}
    /\ Idle

\* Column layouts and designated columns: process_traffic_data takes the
\* three column names as arguments, and the sheet may lack any of them.
InitColumns ==
    /\ uploaded \in {MakeTable(c, b) : c \in Schemas,
                                       b \in {ScenarioRows, SubSeq(ScenarioRows, 1, 1)}}
    /\ url_column \in UrlColumns
    /\ traffic_column \in TrafficColumns
    /\ keyword_column \in KeywordColumns
    /\ \E c \in {<<CompressorsQuery, CompressorKw>>, <<<<>>, CompressorKw>>,
                  <<<<>>, <<>>>>} :
          url_match = c[1] /\ search_keywords = c[2]
    /\ Idle

\* Generated text inputs against one sheet.
InitCriteria ==
    /\ uploaded = MakeTable(DefaultColumns, MatchRows)
    /\ url_column = "Ranking URL"
    /\ traffic_column = "Traffic Index"
    /\ keyword_column = "Translation"
    /\ url_match \in SeqsUpTo(UrlAlphabet, MaxQueryLen)
    /\ search_keywords \in SeqsUpTo(KwAlphabet, MaxQueryLen)
    /\ Idle

Init == InitPipeline \/ InitColumns \/ InitCriteria

\* Line 195: filtered_df = process_traffic_data(df, ...), and the test of
\* line 198 that decides whether results are shown.
Submit ==
    /\ pc = "submitted"
    /\ LET r == ProcessTrafficData(df, url_column, traffic_column, keyword_column,
                                   url_match, search_keywords)
       IN /\ df' = r.df
          /\ outcome' = r.outcome
          /\ reported' = r.reported
          /\ filtered_df' = r.result
          /\ pc' = IF r.outcome = "ok" /\ r.result.rows # <<>> THEN "metrics" ELSE "done"
    /\ UNCHANGED <<uploaded, url_column, traffic_column, keyword_column, url_match,
                   search_keywords, sums, subfolder_analysis, progressive_analysis>>

\* Lines 201-204
Metrics ==
    /\ pc = "metrics"
    /\ sums' = TrafficSums(filtered_df, traffic_column)
    /\ pc' = "subfolders"
    /\ UNCHANGED <<uploaded, df, url_column, traffic_column, keyword_column, url_match,
                   search_keywords, outcome, reported, filtered_df,
                   subfolder_analysis, progressive_analysis>>

\* Line 214: subfolder_analysis, progressive_analysis = analyze_subfolders(...)
Subfolders ==
    /\ pc = "subfolders"
    /\ subfolder_analysis' \in
          SortValues(SubfolderGroups(filtered_df, url_column, traffic_column))
    /\ progressive_analysis' \in
          SortValues(ProgressiveGroups(filtered_df, url_column, traffic_column))
    /\ pc' = "done"
    /\ UNCHANGED <<uploaded, df, url_column, traffic_column, keyword_column, url_match,
                   search_keywords, outcome, reported, filtered_df, sums>>

Next == Submit \/ Metrics \/ Subfolders

Spec == Init /\ [][Next]_vars
-----------------------------------------------------------------------------
(* Properties of process_traffic_data *)

Classified == pc # "submitted" /\ outcome = "ok"

\* The row of a table that carries a label.
RowOf(table, label) ==
    table.rows[CHOOSE i \in 1..Len(table.rows) : table.rows[i].label = label]

Labels(table) == {table.rows[i].label : i \in 1..Len(table.rows)}

Flag(row, col) == row.cells[col].v

\* The category the precedence Both > URL only > Translation only > No Match
\* gives to a pair of flags.
Precedence(u, k) ==
    CASE u /\ k   -> "Both matches"
      [] u /\ ~k  -> "URL matches only"
      [] ~u /\ k  -> "Translation matches only"
      [] OTHER    -> "No Match"

\* C1: after a successful classify every row's Category is the one the
\* precedence gives to its (URL Match, Translation Match) flags, and the rows
\* of the FilteredTable are, in their order, exactly the rows of the input
\* whose Category is not No Match.
C1_CategoryAndFilter ==
    Classified =>
       /\ \A i \in 1..Len(df.rows) :
             df.rows[i].cells["Category"].v =
                Precedence(Flag(df.rows[i], "URL Match"),
                           Flag(df.rows[i], "Translation Match"))
       /\ \A l \in Labels(uploaded) :
             l \in Labels(filtered_df) <=>
                Precedence(Flag(RowOf(df, l), "URL Match"),
                           Flag(RowOf(df, l), "Translation Match")) # "No Match"
       /\ Labels(filtered_df) \subseteq Labels(uploaded)
       /\ \A i \in 1..Len(filtered_df.rows) :
             /\ filtered_df.rows[i].cells["Category"].v =
                   Precedence(Flag(filtered_df.rows[i], "URL Match"),
                              Flag(filtered_df.rows[i], "Translation Match"))
             /\ \A j \in 1..Len(filtered_df.rows) :
                   i < j => filtered_df.rows[i].label < filtered_df.rows[j].label

\* A successful classify that dropped a row and kept rows of two categories.
C1_Witness ==
    /\ Classified
    /\ Len(filtered_df.rows) < Len(uploaded.rows)
    /\ \E i, j \in 1..Len(filtered_df.rows) :
          /\ filtered_df.rows[i].cells["Category"].v = "Both matches"
          /\ filtered_df.rows[j].cells["Category"].v = "Translation matches only"

\* C2: process_traffic_data leaves the caller's table as it was: the same
\* columns and the same cell values after any call.
C2_InputUntouched == pc # "submitted" => TableEq(df, uploaded)

Required == {url_column, traffic_column, keyword_column}

Absent == Required \ Range(uploaded.columns)

\* C5: when a designated column is absent the call ends with the
\* missing-column error, which lists exactly the absent designated columns,
\* returns no table and has not touched the input; with all three present
\* this error is not raised.
C5_MissingColumns ==
    pc # "submitted" =>
       /\ Absent # {} =>
             /\ outcome = "missing_columns"
             /\ Range(reported) = Absent
             /\ Len(reported) = Cardinality(Absent)
             /\ filtered_df = None
             /\ TableEq(df, uploaded)
             /\ pc = "done"
       /\ Absent = {} => outcome # "missing_columns" /\ reported = <<>>

\* A sheet without the traffic column only, and one lacking two columns.
C5_Witness ==
    /\ pc = "done"
    /\ outcome = "missing_columns"
    /\ reported = <<"Traffic Index">>
    /\ "Ranking URL" \in Range(uploaded.columns)

\* Both text inputs are blank: the URL query holds only spaces, the keyword
\* input only spaces and commas.
BlankCriteria ==
    /\ \A i \in 1..Len(url_match) : url_match[i] = " "
    /\ \A i \in 1..Len(search_keywords) : search_keywords[i] \in {" ", ","}

\* C6: with all designated columns present, the call ends with the
\* empty-criteria error, and without a table, exactly when both text inputs
\* are blank.
C6_EmptyCriteria ==
    (pc # "submitted" /\ Absent = {}) =>
       /\ outcome = "empty_criteria" <=> BlankCriteria
       /\ outcome = "empty_criteria" => filtered_df = None /\ pc = "done"

\* The error raised for a keyword input made of a space and a comma.
C6_Witness ==
    /\ outcome = "empty_criteria"
    /\ search_keywords = <<" ", ",">>
    /\ url_match = <<" ">>

\* C8: the FilteredTable has the original columns before the keyword column,
\* then URL Match, Translation Match, Category, then the keyword column and
\* the original columns after it, and every retained row has its original
\* value in every original column.
C8_ColumnOrder ==
    Classified =>
       LET orig == uploaded.columns
           p    == IndexOf(orig, keyword_column)
       IN /\ filtered_df.columns =
                SubSeq(orig, 1, p - 1) \o DerivedColumns \o SubSeq(orig, p, Len(orig))
          /\ \A i \in 1..Len(filtered_df.rows) :
                \A c \in Range(orig) :
                   CellEq(filtered_df.rows[i].cells[c],
                          RowOf(uploaded, filtered_df.rows[i].label).cells[c])

\* needle occurs in text when case is ignored.
ContainsFold(text, needle) ==
    \E i \in 1..(Len(text) - Len(needle) + 1) :
       \A j \in 1..Len(needle) : Lower(text[i + j - 1]) = Lower(needle[j])

LiteralUrlMatch(row) ==
    /\ Strip(url_match) # <<>>
    /\ row.cells[url_column].t = "str"
    /\ ContainsFold(row.cells[url_column].v, Strip(url_match))

LiteralKeywordMatch(row) ==
    /\ row.cells[keyword_column].t = "str"
    /\ \E k \in 1..Len(KeywordsList(search_keywords)) :
          ContainsFold(row.cells[keyword_column].v, KeywordsList(search_keywords)[k])

\* C10: URL Match is true exactly for the rows whose URL value contains the
\* trimmed, non-empty URL query as literal text, case ignored; Translation
\* Match exactly for the rows whose keyword value contains one of the
\* non-empty trimmed tokens as literal text, case ignored; an empty cell
\* never matches.
C10_LiteralMatch ==
    (pc # "submitted" /\ outcome \in {"ok", "empty_criteria"}) =>
       \A i \in 1..Len(df.rows) :
          /\ Flag(df.rows[i], "URL Match") = LiteralUrlMatch(uploaded.rows[i])
          /\ Flag(df.rows[i], "Translation Match") = LiteralKeywordMatch(uploaded.rows[i])

\* A query and a token made of regular expression metacharacters that match
\* one row as literal text and not the other.
C10_Witness ==
    /\ Classified
    /\ url_match = <<"a", "*">>
    /\ search_keywords = <<"|", ",">>
    /\ Flag(df.rows[1], "URL Match") /\ ~Flag(df.rows[2], "URL Match")
    /\ Flag(df.rows[1], "Translation Match") /\ ~Flag(df.rows[2], "Translation Match")
-----------------------------------------------------------------------------
(* Properties of analyze_subfolders *)

Aggregated == pc = "done" /\ outcome = "ok" /\ filtered_df.rows # <<>>

\* Each row of a table next to the path its own URL parses to.
RowsWithOwnPath(table, urlcol, trafficcol) ==
    [i \in 1..Len(table.rows) |->
        [traffic |-> table.rows[i].cells[trafficcol],
         path    |-> ParsedPath(table.rows[i].cells[urlcol])]]

\* The rows handed to analyze_subfolders, each with its own path.
OwnPaths == RowsWithOwnPath(filtered_df, url_column, traffic_column)

RowsAt(key) == SelectSeq(OwnPaths, LAMBDA r : r.path.t = "str" /\ r.path.v = key)

RECURSIVE TrafficOf(_)
TrafficOf(rows) ==
    IF rows = <<>> THEN 0 ELSE Head(rows).traffic.v + TrafficOf(Tail(rows))

\* C3: the full-path aggregate has one entry per distinct non-empty path of
\* the rows it was given, with the traffic and the number of the rows whose
\* own URL parses to that path.
C3_FullPathAggregate ==
    Aggregated =>
       /\ Range(subfolder_analysis) =
             {[Subfolder    |-> OwnPaths[i].path.v,
               TotalTraffic |-> TrafficOf(RowsAt(OwnPaths[i].path.v)),
               NumberOfURLs |-> Len(RowsAt(OwnPaths[i].path.v))] :
                i \in {j \in 1..Len(OwnPaths) : OwnPaths[j].path.t = "str"}}
       /\ \A i, j \in 1..Len(subfolder_analysis) :
             i # j => subfolder_analysis[i].Subfolder # subfolder_analysis[j].Subfolder

\* The non-empty components of a path.
Components(path) ==
    IF path.t = "nan" THEN <<>>
    ELSE SelectSeq(Split(path.v, "/"), LAMBDA c : c # <<>>)

\* The bucket of depth i: '/c1/.../ci/'.
Bucket(components, i) ==
    <<"/">> \o Join(SubSeq(components, 1, i), <<"/">>) \o <<"/">>

IsPrefix(a, b) == Len(a) <= Len(b) /\ SubSeq(b, 1, Len(a)) = a

\* C4: a row whose path has d non-empty components goes to exactly d
\* progressive buckets, those of depth 1..d (none for '/' or an empty path),
\* the bucket of depth 1 is a prefix of the deeper ones, and the progressive
\* aggregate has no other buckets than these.
C4_ProgressiveBuckets ==
    Aggregated =>
       /\ \A i \in 1..Len(OwnPaths) :
             LET comps == Components(OwnPaths[i].path)
                 made  == CreateProgressivePaths(OwnPaths[i].path)
             IN /\ Len(made) = Len(comps)
                /\ \A d \in 1..Len(made) :
                      made[d] = Bucket(comps, d) /\ IsPrefix(made[1], made[d])
       /\ {progressive_analysis[g].Subfolder : g \in 1..Len(progressive_analysis)} =
             UNION {{Bucket(Components(OwnPaths[i].path), d) :
                        d \in 1..Len(Components(OwnPaths[i].path))} :
                      i \in 1..Len(OwnPaths)}

Descending(agg) ==
    \A i, j \in 1..Len(agg) : i < j => agg[i].TotalTraffic >= agg[j].TotalTraffic

\* The position at which a key first comes up in the keyed rows.
FirstSeen(keyed, key) ==
    CHOOSE i \in 1..Len(keyed) : keyed[i].key = key /\ \A j \in 1..(i - 1) : keyed[j].key # key

TiesFirstSeen(agg, keyed) ==
    \A i, j \in 1..Len(agg) :
       (i < j /\ agg[i].TotalTraffic = agg[j].TotalTraffic) =>
          FirstSeen(keyed, agg[i].Subfolder) < FirstSeen(keyed, agg[j].Subfolder)

\* C7 as stated: both aggregates are in descending order of summed traffic
\* and entries of equal traffic are in the order in which their keys first
\* come up in the input rows.
C7_TiesFirstSeen ==
    Aggregated =>
       /\ Descending(subfolder_analysis)
       /\ Descending(progressive_analysis)
       /\ TiesFirstSeen(subfolder_analysis, KeyedByPath(OwnPaths))
       /\ TiesFirstSeen(progressive_analysis, Explode(OwnPaths))

\* C7 as amended: both aggregates are in descending order of summed traffic
\* and name every key once.
C7_Descending ==
    Aggregated =>
       /\ Descending(subfolder_analysis)
       /\ Descending(progressive_analysis)
       /\ \A i, j \in 1..Len(subfolder_analysis) :
             i # j => subfolder_analysis[i].Subfolder # subfolder_analysis[j].Subfolder
       /\ \A i, j \in 1..Len(progressive_analysis) :
             i # j => progressive_analysis[i].Subfolder # progressive_analysis[j].Subfolder

\* Aggregates with entries of different and of equal traffic, whose grouping
\* order is not the descending one.
C7_Witness ==
    /\ Aggregated
    /\ Len(subfolder_analysis) >= 2
    /\ subfolder_analysis[1].TotalTraffic > subfolder_analysis[2].TotalTraffic
    /\ LexLess(subfolder_analysis[2].Subfolder, subfolder_analysis[1].Subfolder)
    /\ \E i, j \in 1..Len(progressive_analysis) :
          i # j /\ progressive_analysis[i].TotalTraffic = progressive_analysis[j].TotalTraffic

ScenarioInput ==
    /\ uploaded = MakeTable(DefaultColumns, ScenarioRows)
    /\ url_column = "Ranking URL"
    /\ traffic_column = "Traffic Index"
    /\ keyword_column = "Translation"
    /\ url_match = CompressorsQuery
    /\ search_keywords = CompressorKw

CompressorsBucket == <<"/">> \o Tail(CompressorsQuery) \o <<"/">>

CompressorsSmallBucket == CompressorsSmallUrl \o <<"/">>

ScenarioResult(split) ==
    /\ outcome = "ok"
    /\ Len(filtered_df.rows) = 1
    /\ filtered_df.rows[1].label = 0
    /\ filtered_df.rows[1].cells["Category"].v = "Both matches"
    /\ RowOf(df, 1).cells["Category"].v = "No Match"
    /\ sums = [url_only |-> 0, keyword_only |-> 0, both_matches |-> 10,
               total_relevant_traffic |-> 10]
    /\ subfolder_analysis =
          <<[Subfolder |-> CompressorsSmallUrl, TotalTraffic |-> 10, NumberOfURLs |-> 1]>>
    /\ Len(progressive_analysis) = 2
    /\ Range(progressive_analysis) =
          {[Subfolder |-> CompressorsBucket, TotalTraffic |-> 10, NumberOfURLs |-> 1,
            TrafficSplit |-> split, URLSplit |-> split],
           [Subfolder |-> CompressorsSmallBucket, TotalTraffic |-> 10, NumberOfURLs |-> 1,
            TrafficSplit |-> split, URLSplit |-> split]}

\* C9 as stated: the two-row scenario ends with row 1 in category Both, row
\* 2 excluded, the sums 0, 0, 10, 10, the full-path entry
\* (/compressors/small, 10, 1) and the two progressive entries
\* (/compressors/, 10, 1) and (/compressors/small/, 10, 1), each with the
\* splits "100.0%".
C9_ScenarioAsStated == (ScenarioInput /\ pc = "done") => ScenarioResult("100.0%")

\* C9 as amended: the same result, each progressive entry with the splits
\* "50.0%" (10 of a bucket total of 20, 1 of a bucket count of 2).
C9_Scenario == (ScenarioInput /\ pc = "done") => ScenarioResult("50.0%")

\* The scenario has run to its end.
C9_Witness ==
    /\ ScenarioInput
    /\ pc = "done"
    /\ Len(progressive_analysis) = 2
    /\ progressive_analysis[1].TrafficSplit = "50.0%"

=============================================================================
